---- MODULE Spec2Model ----
(***************************************************************************)
(* Song-Analysis: the incremental enrichment pipeline.                     *)
(*   stage 1  url_collection        (SCdownloading.py)  -> all_songs       *)
(*   stage 2  process_songs         (jsonsorting.py)    -> analyzed_songs  *)
(*   cleanup  clean_analyzed_songs  (jsonsorting.py)    -> cleaned_songs   *)
(*   stage 3  analyze_songs         (deeperdata.py)     -> deep_analyzed   *)
(* and the pure per-section energy computation of deeperdata.py.           *)
(* A JSON file is a value [state, data]; a song is a function from field   *)
(* names to values, so that "bpm" \in DOMAIN song is Python's              *)
(* "bpm" in song; a track_url is <<"url", track>>, the empty one <<>>.      *)
(* Every file write is taken as one atomic step.                           *)
(***************************************************************************)
EXTENDS Integers, Sequences, FiniteSets, TLC

VARIABLES
    files,        \* file name -> [state: "missing" | "malformed" | "list", data]
    stage,        \* "idle" | "collect" | "bpmkey" | "clean" | "deep"
    pc,           \* position inside the running stage
    phase,        \* number of the latest pipeline stage that was started
    inF, outF,    \* input_file / output_file of the running stage
    all_tracks,   \* stage 1: the in-memory store
    p_idx,        \* stage 1: index of the playlist being processed
    tracks,       \* stage 1: playlist.tracks of the resolved playlist
    t_idx,        \* stage 1: index of the track being processed
    all_ok,       \* stage 1: every track of this playlist resolved so far
    songs,        \* stages 2, 3: the in-memory list
    order,        \* stages 2, 3: indices of songs in processing order
    idx,          \* stages 2, 3: position in order
    outcome,      \* stages 2, 3: what the current iteration reported
    rms,          \* energy: RMS value of each frame
    num_sections, \* energy: k of extract_structure
    segment_times,\* energy: section start times
    energy_by_section, \* energy: result list
    epc           \* energy: position of the feature extraction

pipeVars == <<files, stage, pc, phase, inF, outF, all_tracks, p_idx, tracks,
              t_idx, all_ok, songs, order, idx, outcome>>
energyVars == <<rms, num_sections, segment_times, energy_by_section, epc>>
vars == <<pipeVars, energyVars>>

----------------------------------------------------------------------------
(* Bounds *)
NumTrackIds == 2      \* distinct tracks the platform knows
MaxTracks == 2        \* tracks in one playlist
NumPlaylists == 2     \* length of playlist_urls
MaxFrames == 4        \* RMS frames of an analysed audio buffer
MaxRms == 1           \* largest RMS value of a frame
MaxSections == 3      \* largest k given to extract_structure

(* Program constants *)
hop_length == 512
default_num_sections == 4

TrackIds == 1..NumTrackIds
TrackLists == UNION {[1..n -> TrackIds] : n \in 0..MaxTracks}

----------------------------------------------------------------------------
(* Files *)
F1 == "all_songs"
F2 == "analyzed_songs"
F3 == "cleaned_songs"
F4 == "deep_analyzed_songs"
FileNames == {F1, F2, F3, F4}

Missing == [state |-> "missing", data |-> <<>>]
Malformed == [state |-> "malformed", data |-> <<>>]
ListFile(s) == [state |-> "list", data |-> s]
IsList(f) == f.state = "list"

\* open(path, "r") + json.load raise FileNotFoundError / JSONDecodeError
LoadFails(f) == f.state \in {"missing", "malformed"}

\* with open(path, "w"): json.dump(records, f)
save(fs, path, records) == [fs EXCEPT ![path] = ListFile(records)]

----------------------------------------------------------------------------
(* Records *)
Genre(t) == IF t % 2 = 1 THEN "house" ELSE "techno"

\* the record is built without its track_url
new_track_NoUrl(t) ==
    [title |-> t, artist |-> "user", duration |-> 1, genre |-> Genre(t)]

\* the record stage 1 builds from client.resolve(track.permalink_url)
new_track(t) ==
    [title |-> t, artist |-> "user", track_url |-> <<"url", t>>, duration |-> 1,
     genre |-> Genre(t)]

\* records of a hand-made store that have no track_url
NoUrlRecord == [title |-> 0, artist |-> "user", genre |-> "techno"]
NoUrlAnalyzed == [title |-> 0, artist |-> "user", bpm |-> 120, key |-> "C"]

Contains(store, r) == \E i \in 1..Len(store) : store[i] = r

\* always appends
merge_insert_NoDedup(store, candidate) == Append(store, candidate)

\* if new_track not in all_tracks: all_tracks.append(new_track)
merge_insert(store, candidate) ==
    IF Contains(store, candidate) THEN store ELSE Append(store, candidate)

Has(song, f) == f \in DOMAIN song

\* track_url = song.get("track_url"); if not track_url: skip
HasUrl(song) == Has(song, "track_url") /\ song["track_url"] # <<>>

\* song[f] = v for every f of upd
SetFields(song, upd) ==
    [f \in DOMAIN song \cup DOMAIN upd |->
        IF f \in DOMAIN upd THEN upd[f] ELSE song[f]]

----------------------------------------------------------------------------
(* Feature extraction (deeperdata.py).  Times are counted in samples       *)
(* (seconds * sr), so frames_to_time is frame * hop_length.                *)

RECURSIVE Sum(_)
Sum(s) == IF s = <<>> THEN 0 ELSE Head(s) + Sum(Tail(s))

\* librosa.frames_to_time(frames, sr=sr, hop_length=hop_length)
frames_to_time(frame) == frame * hop_length

\* frame_times = frames_to_time(range(len(rms)))
frame_times(r) == [j \in 1..Len(r) |-> frames_to_time(j - 1)]

\* np.mean of the selected frames as the exact fraction sum / count; 0.0 if empty
average_energy(r, selected) ==
    IF selected = {} THEN [num |-> 0, den |-> 1]
    ELSE [num |-> Sum([m \in 1..Cardinality(selected) |->
                        r[CHOOSE j \in selected :
                            Cardinality({h \in selected : h < j}) = m - 1]]),
          den |-> Cardinality(selected)]

\* end_time = segment_times[i + 1] if i < len(segment_times) - 1 else frame_times[-1]
end_time(r, seg, i) ==
    IF i < Len(seg) THEN seg[i + 1] ELSE frame_times(r)[Len(r)]

\* section_indices = (frame_times >= start_time) & (frame_times < end_time)
section_indices(r, seg, i) ==
    {j \in 1..Len(r) : frame_times(r)[j] >= seg[i] /\ frame_times(r)[j] < end_time(r, seg, i)}

\* one entry per section, (start_time, average_energy)
section_entry(r, seg, i) ==
    [start |-> seg[i], energy |-> average_energy(r, section_indices(r, seg, i))]

\* drops the sections that hold no frame
extract_energy_SkipEmpty(r, seg) ==
    LET kept == SelectSeq([i \in 1..Len(seg) |-> i],
                          LAMBDA i : section_indices(r, seg, i) # {})
    IN [m \in 1..Len(kept) |-> section_entry(r, seg, kept[m])]

extract_energy_by_section(r, seg) ==
    [i \in 1..Len(seg) |-> section_entry(r, seg, i)]

\* librosa.segment.agglomerative(mfcc.T, k): k boundary frames, the first
\* one frame 0, strictly increasing; it raises when there are fewer than k frames
Agglomerative(n, k) ==
    {b \in [1..k -> 0..(n - 1)] :
        /\ b[1] = 0
        /\ \A i \in 1..(k - 1) : b[i] < b[i + 1]}

\* segment_times = librosa.frames_to_time(boundaries, sr=sr)
boundary_times(b) == [i \in 1..Len(b) |-> frames_to_time(b[i])]

\* the buffer the pipeline's fetch + decode yields: one frame per default section
PipelineRms == [j \in 1..default_num_sections |-> j % 2]

\* analyze_song_deep(y, sr) on that buffer
analyze_song_deep ==
    LET sections == boundary_times(
            CHOOSE b \in Agglomerative(Len(PipelineRms), default_num_sections) : TRUE)
    IN [energy |-> extract_energy_by_section(PipelineRms, sections),
        rhythm |-> [tempo |-> 120, beat_times |-> <<>>],
        structure |-> [sections |-> sections, bars |-> <<>>]]

----------------------------------------------------------------------------
(* Stage 1: url_collection(playlist_urls, output_file = all_songs)         *)

Idle == stage = "idle" /\ pc = "none"

NoLocals ==
    /\ all_tracks = <<>> /\ p_idx = 0 /\ tracks = <<>> /\ t_idx = 0
    /\ all_ok = TRUE /\ songs = <<>> /\ order = <<>> /\ idx = 0
    /\ outcome = "none" /\ inF = "none" /\ outF = "none"

ClearLocals ==
    /\ all_tracks' = <<>> /\ p_idx' = 0 /\ tracks' = <<>> /\ t_idx' = 0
    /\ all_ok' = TRUE /\ songs' = <<>> /\ order' = <<>> /\ idx' = 0
    /\ outcome' = "none" /\ inF' = "none" /\ outF' = "none"

\* a missing output file is left missing
EnsureExists_Skip(f) == f

\* if not os.path.exists(output_file): json.dump([], f)
EnsureExists(f) == IF f.state = "missing" THEN ListFile(<<>>) ELSE f

\* lines 17-26: create the file if missing, then load it; malformed JSON is
\* an uncaught JSONDecodeError that ends the run
StartCollect ==
    /\ Idle /\ phase <= 1
    /\ phase' = 1 /\ stage' = "collect"
    /\ inF' = F1 /\ outF' = F1
    /\ LET f == EnsureExists(files[F1]) IN
        /\ files' = [files EXCEPT ![F1] = f]
        /\ IF LoadFails(f)
           THEN pc' = "aborted" /\ all_tracks' = <<>> /\ p_idx' = 0
           ELSE pc' = "playlists" /\ all_tracks' = f.data /\ p_idx' = 1
    /\ UNCHANGED <<tracks, t_idx, all_ok, songs, order, idx, outcome>>
    /\ UNCHANGED energyVars

\* lines 29-33 and 64-65: resolve the next playlist; a failure skips it
ResolvePlaylist ==
    /\ stage = "collect" /\ pc = "playlists" /\ p_idx <= NumPlaylists
    /\ \/ /\ p_idx' = p_idx + 1
          /\ UNCHANGED <<pc, tracks, t_idx, all_ok>>
       \/ \E tr \in TrackLists :
            /\ tracks' = tr /\ t_idx' = 1 /\ all_ok' = TRUE
            /\ pc' = "tracks"
            /\ UNCHANGED p_idx
    /\ UNCHANGED <<files, stage, phase, inF, outF, all_tracks, songs, order,
                   idx, outcome>>
    /\ UNCHANGED energyVars

\* a failed track resolution leaves the playlist without saving
TrackFailed_Abort ==
    /\ pc' = "playlists" /\ p_idx' = p_idx + 1 /\ all_ok' = FALSE
    /\ UNCHANGED <<tracks, t_idx, all_tracks>>

\* lines 56-57: the error is printed and the loop goes on
TrackFailed ==
    /\ t_idx' = t_idx + 1 /\ all_ok' = FALSE
    /\ UNCHANGED <<pc, p_idx, tracks, all_tracks>>

\* lines 36-57: resolve one track and merge-insert its record
ProcessTrack ==
    /\ stage = "collect" /\ pc = "tracks" /\ t_idx <= Len(tracks)
    /\ \/ TrackFailed
       \/ /\ all_tracks' = merge_insert(all_tracks, new_track(tracks[t_idx]))
          /\ t_idx' = t_idx + 1
          /\ UNCHANGED <<pc, p_idx, tracks, all_ok>>
    /\ UNCHANGED <<files, stage, phase, inF, outF, songs, order, idx, outcome>>
    /\ UNCHANGED energyVars

\* lines 59-62: after the last track of the playlist the store is written
SavePlaylist ==
    /\ stage = "collect" /\ pc = "tracks" /\ t_idx > Len(tracks)
    /\ files' = save(files, outF, all_tracks)
    /\ pc' = "playlists" /\ p_idx' = p_idx + 1
    /\ UNCHANGED <<stage, phase, inF, outF, all_tracks, tracks, t_idx, all_ok,
                   songs, order, idx, outcome>>
    /\ UNCHANGED energyVars

\* line 67: the playlist loop is over
FinishCollect ==
    /\ stage = "collect" /\ pc = "playlists" /\ p_idx > NumPlaylists
    /\ pc' = "done"
    /\ UNCHANGED <<files, stage, phase, inF, outF, all_tracks, p_idx, tracks,
                   t_idx, all_ok, songs, order, idx, outcome>>
    /\ UNCHANGED energyVars

----------------------------------------------------------------------------
(* Stage 2: process_songs(input_file, output_file = analyzed_songs)        *)

\* song.get("genre", "Unknown")
GenreOf(song) == IF Has(song, "genre") THEN song["genre"] ELSE "Unknown"

\* sort_songs_by_genre + the nested loops of process_songs: genres in order
\* of first appearance, the songs of one genre in list order
sort_songs_by_genre(ss) ==
    LET n == Len(ss)
        first(i) == CHOOSE j \in 1..n :
                        /\ GenreOf(ss[j]) = GenreOf(ss[i])
                        /\ \A h \in 1..(j - 1) : GenreOf(ss[h]) # GenreOf(ss[i])
        rank(i) == first(i) * (n + 1) + i
    IN [m \in 1..n |->
          CHOOSE i \in 1..n : Cardinality({j \in 1..n : rank(j) < rank(i)}) = m - 1]

\* for idx, song in enumerate(songs)
list_order(ss) == [m \in 1..Len(ss) |-> m]

\* the run reads the file it saved earlier when there is one, else the
\* output of the stage before
InputOf(saved, before) == IF IsList(files[saved]) THEN saved ELSE before

\* an unreadable input is replaced by the empty list
LoadOrAbort_Empty(f) == [ok |-> TRUE, data |-> f.data]

\* try: json.load(f) / except FileNotFoundError, JSONDecodeError: return
LoadOrAbort(f) == [ok |-> ~LoadFails(f), data |-> f.data]

StartLoop(in, out, byGenre) ==
    /\ inF' = in /\ outF' = out
    /\ LET l == LoadOrAbort(files[in]) IN
        IF l.ok
        THEN /\ pc' = "loop" /\ songs' = l.data /\ idx' = 1
             /\ order' = IF byGenre THEN sort_songs_by_genre(l.data)
                                     ELSE list_order(l.data)
        ELSE pc' = "aborted" /\ songs' = <<>> /\ order' = <<>> /\ idx' = 0
    /\ outcome' = "none"
    /\ UNCHANGED <<files, all_tracks, p_idx, tracks, t_idx, all_ok>>

\* lines 94-108
StartBpmKey ==
    /\ Idle /\ phase <= 2
    /\ phase' = 2 /\ stage' = "bpmkey"
    /\ StartLoop(InputOf(F2, F1), F2, TRUE)
    /\ UNCHANGED energyVars

\* analyze_song(stream_url): (float(tempo), key), or (None, None) on a
\* non-200 answer or an exception
analyze_song(o) ==
    IF o = "ok" THEN [none |-> FALSE, bpm |-> 120, key |-> "C"]
    ELSE IF o = "zero_bpm" THEN [none |-> FALSE, bpm |-> 0, key |-> "C"]
    ELSE [none |-> TRUE, bpm |-> 0, key |-> ""]

\* stores whatever the analysis returned
annotate_Always(song, res) == SetFields(song, [bpm |-> res.bpm, key |-> res.key])

\* if bpm and key: song["bpm"] = bpm; song["key"] = key
annotate(song, res) ==
    IF ~res.none /\ res.bpm # 0 /\ res.key # ""
    THEN SetFields(song, [bpm |-> res.bpm, key |-> res.key])
    ELSE song

AnalysisOutcomes == {"non200", "error", "zero_bpm", "ok"}

\* a skip ends the loop
Continue_Break ==
    /\ idx' = Len(order) + 1 /\ pc' = "loop"
    /\ UNCHANGED <<files, songs>>

\* continue: on to the next song, nothing written
Continue ==
    /\ idx' = idx + 1 /\ pc' = "loop"
    /\ UNCHANGED <<files, songs>>

\* lines 114-135: one song up to the point where the progress is saved
AnalyzeBpmKey ==
    /\ stage = "bpmkey" /\ pc = "loop" /\ idx <= Len(order)
    /\ LET i == order[idx] IN
        \/ /\ ~HasUrl(songs[i])
           /\ outcome' = "no_url"
           /\ Continue
        \/ /\ HasUrl(songs[i])
           /\ outcome' = "resolve_failed"
           /\ Continue
        \/ /\ HasUrl(songs[i])
           /\ \E o \in AnalysisOutcomes :
                /\ outcome' = o
                /\ songs' = [songs EXCEPT ![i] = annotate(@, analyze_song(o))]
           /\ pc' = "save"
           /\ UNCHANGED <<files, idx>>
    /\ UNCHANGED <<stage, phase, inF, outF, all_tracks, p_idx, tracks, t_idx,
                   all_ok, order>>
    /\ UNCHANGED energyVars

\* the progress is kept in memory only
SaveProgress_Skip ==
    /\ UNCHANGED files
    /\ idx' = idx + 1 /\ pc' = "loop" /\ outcome' = "none"
    /\ UNCHANGED songs

\* json.dump(songs, f); time.sleep(1)
SaveProgress ==
    /\ files' = save(files, outF, songs)
    /\ idx' = idx + 1 /\ pc' = "loop" /\ outcome' = "none"
    /\ UNCHANGED songs

\* lines 137-143
SaveBpmKey ==
    /\ stage = "bpmkey" /\ pc = "save"
    /\ SaveProgress
    /\ UNCHANGED <<stage, phase, inF, outF, all_tracks, p_idx, tracks, t_idx,
                   all_ok, order>>
    /\ UNCHANGED energyVars

FinishLoop ==
    /\ stage \in {"bpmkey", "deep"} /\ pc = "loop" /\ idx > Len(order)
    /\ pc' = "done"
    /\ UNCHANGED <<files, stage, phase, inF, outF, all_tracks, p_idx, tracks,
                   t_idx, all_ok, songs, order, idx, outcome>>
    /\ UNCHANGED energyVars

----------------------------------------------------------------------------
(* Cleanup filter: clean_analyzed_songs(analyzed_songs, cleaned_songs)     *)

\* keeps every song
cleaned_songs_KeepAll(ss) == ss

\* keeps the songs that have a bpm
cleaned_songs_BpmOnly(ss) == SelectSeq(ss, LAMBDA song : Has(song, "bpm"))

\* [song for song in songs if "bpm" in song and "key" in song]
cleaned_songs(ss) ==
    SelectSeq(ss, LAMBDA song : Has(song, "bpm") /\ Has(song, "key"))

\* lines 154-174
Clean ==
    /\ Idle /\ phase <= 3
    /\ phase' = 3 /\ stage' = "clean"
    /\ inF' = F2 /\ outF' = F3
    /\ LET l == LoadOrAbort(files[F2]) IN
        IF l.ok
        THEN pc' = "done" /\ files' = save(files, F3, cleaned_songs(l.data))
        ELSE pc' = "aborted" /\ UNCHANGED files
    /\ UNCHANGED <<all_tracks, p_idx, tracks, t_idx, all_ok, songs, order, idx,
                   outcome>>
    /\ UNCHANGED energyVars

----------------------------------------------------------------------------
(* Stage 3: analyze_songs(input_file, output_file = deep_analyzed_songs)   *)

\* lines 144-153
StartDeep ==
    /\ Idle /\ phase <= 4
    /\ phase' = 4 /\ stage' = "deep"
    /\ StartLoop(InputOf(F4, F3), F4, FALSE)
    /\ UNCHANGED energyVars

DeepFailures == {"resolve_failed", "non200", "error"}

\* lines 155-186: one song up to the point where the progress is saved
AnalyzeDeep ==
    /\ stage = "deep" /\ pc = "loop" /\ idx <= Len(order)
    /\ LET i == order[idx] IN
        \/ /\ ~HasUrl(songs[i])
           /\ outcome' = "no_url"
           /\ Continue
        \/ /\ HasUrl(songs[i])
           /\ \E o \in DeepFailures : outcome' = o
           /\ Continue
        \/ /\ HasUrl(songs[i])
           /\ outcome' = "ok"
           /\ songs' = [songs EXCEPT
                            ![i] = SetFields(@, [features |-> analyze_song_deep])]
           /\ pc' = "save"
           /\ UNCHANGED <<files, idx>>
    /\ UNCHANGED <<stage, phase, inF, outF, all_tracks, p_idx, tracks, t_idx,
                   all_ok, order>>
    /\ UNCHANGED energyVars

\* lines 188-194
SaveDeep ==
    /\ stage = "deep" /\ pc = "save"
    /\ SaveProgress
    /\ UNCHANGED <<stage, phase, inF, outF, all_tracks, p_idx, tracks, t_idx,
                   all_ok, order>>
    /\ UNCHANGED energyVars

----------------------------------------------------------------------------
(* The end of a run *)

\* the function returns, or the uncaught exception ends the process
Return ==
    /\ pc \in {"done", "aborted"}
    /\ stage' = "idle" /\ pc' = "none"
    /\ ClearLocals
    /\ UNCHANGED <<files, phase>>
    /\ UNCHANGED energyVars

\* the process is terminated while a stage is running: memory is lost
Terminate ==
    /\ stage # "idle" /\ pc \notin {"done", "aborted"}
    /\ stage' = "idle" /\ pc' = "none"
    /\ ClearLocals
    /\ UNCHANGED <<files, phase>>
    /\ UNCHANGED energyVars

----------------------------------------------------------------------------
(* The pipeline *)

EnergyOff ==
    /\ rms = <<>> /\ num_sections = 0 /\ segment_times = <<>>
    /\ energy_by_section = <<>> /\ epc = "off"

NoFiles == [f \in FileNames |-> Missing]

\* what is on disk before the first run
InitFiles ==
    {[NoFiles EXCEPT ![F1] = c] :
        c \in {Missing, Malformed, ListFile(<<>>),
               ListFile(<<NoUrlRecord, new_track(1)>>),
               ListFile(<<NoUrlAnalyzed>>)}}
    \cup {[NoFiles EXCEPT ![F2] = Malformed, ![F3] = Malformed]}

Init ==
    /\ files \in InitFiles
    /\ stage = "idle" /\ pc = "none" /\ phase = 0
    /\ NoLocals
    /\ EnergyOff

Next ==
    \/ StartCollect
    \/ ResolvePlaylist
    \/ ProcessTrack
    \/ SavePlaylist
    \/ FinishCollect
    \/ StartBpmKey
    \/ AnalyzeBpmKey
    \/ SaveBpmKey
    \/ FinishLoop
    \/ Clean
    \/ StartDeep
    \/ AnalyzeDeep
    \/ SaveDeep
    \/ Return
    \/ Terminate

Spec == Init /\ [][Next]_vars

----------------------------------------------------------------------------
(* The cleanup filter on any analysed list *)

MaxSongs == 3

SongShapes ==
    UNION {{new_track(t),
            SetFields(new_track(t), [bpm |-> 120]),
            SetFields(new_track(t), [key |-> "C"]),
            SetFields(new_track(t), [bpm |-> 120, key |-> "C"])} : t \in TrackIds}

InitClean ==
    /\ \E n \in 0..MaxSongs : \E ss \in [1..n -> SongShapes] :
            files = [NoFiles EXCEPT ![F2] = ListFile(ss)]
    /\ stage = "idle" /\ pc = "none" /\ phase = 0
    /\ NoLocals
    /\ EnergyOff

NextClean ==
    \/ Clean
    \/ Return

SpecClean == InitClean /\ [][NextClean]_vars

----------------------------------------------------------------------------
(* The feature extraction on any buffer *)

\* lines 79-82 of extract_structure
ExtractStructure ==
    /\ epc = "structure"
    /\ IF Len(rms) < num_sections
       THEN epc' = "error" /\ UNCHANGED segment_times
       ELSE /\ \E b \in Agglomerative(Len(rms), num_sections) :
                    segment_times' = boundary_times(b)
            /\ epc' = "energy"
    /\ UNCHANGED <<rms, num_sections, energy_by_section>>
    /\ UNCHANGED pipeVars

\* line 109 of analyze_song_deep
ExtractEnergy ==
    /\ epc = "energy"
    /\ energy_by_section' = extract_energy_by_section(rms, segment_times)
    /\ epc' = "done"
    /\ UNCHANGED <<rms, num_sections, segment_times>>
    /\ UNCHANGED pipeVars

InitEnergy ==
    /\ files = NoFiles
    /\ stage = "idle" /\ pc = "none" /\ phase = 0
    /\ NoLocals
    /\ rms \in UNION {[1..n -> 0..MaxRms] : n \in 1..MaxFrames}
    /\ num_sections \in 1..MaxSections
    /\ segment_times = <<>> /\ energy_by_section = <<>>
    /\ epc = "structure"

NextEnergy ==
    \/ ExtractStructure
    \/ ExtractEnergy

SpecEnergy == InitEnergy /\ [][NextEnergy]_vars

----------------------------------------------------------------------------
(* Claims *)

Data(f) == files[f].data
IsPrefix(a, b) == Len(a) <= Len(b) /\ \A i \in 1..Len(a) : a[i] = b[i]

\* a step of ProcessTrack
TrackStep ==
    /\ stage = "collect" /\ pc = "tracks" /\ stage' = "collect"
    /\ t_idx <= Len(tracks) /\ t_idx' = t_idx + 1

\* the step that ends a resolved playlist and writes the store
PlaylistSaved ==
    /\ stage = "collect" /\ pc = "tracks" /\ stage' = "collect"
    /\ pc' = "playlists"

C1_Idempotent ==
    stage = "collect" =>
        \A t \in TrackIds :
            LET once == merge_insert(all_tracks, new_track(t)) IN
            /\ merge_insert(once, new_track(t)) = once
            /\ Contains(all_tracks, new_track(t)) => once = all_tracks

C1_NoOpStep ==
    TrackStep /\ Contains(all_tracks, new_track(tracks[t_idx]))
        => all_tracks' = all_tracks

\* C1: merge-insert is idempotent.  On every store stage 1 reaches, inserting
\* a record that is already there changes nothing, inserting any record
\* twice gives the store of inserting it once, and a track step whose
\* record is already in the store leaves the store as it was.
C1_MergeInsertIdempotent == [](C1_Idempotent) /\ [][C1_NoOpStep]_vars

\* the same track twice in one playlist, both resolved, one record stored
C1_Witness ==
    /\ stage = "collect" /\ pc = "tracks" /\ all_ok
    /\ Len(tracks) = 2 /\ t_idx = 3 /\ tracks[1] = tracks[2]
    /\ Cardinality({i \in 1..Len(all_tracks) : all_tracks[i] = new_track(tracks[1])}) = 1

\* every track of the playlist resolved and none of its records was in the
\* store when the playlist began (the file holds that store)
C2_Case ==
    /\ PlaylistSaved /\ all_ok
    /\ IsList(files[F1])
    /\ \A i \in 1..Len(tracks) : ~Contains(Data(F1), new_track(tracks[i]))

C2_NewRecords(n) ==
    /\ IsList(files'[F1])
    /\ IsPrefix(Data(F1), files'[F1].data)
    /\ Len(files'[F1].data) = Len(Data(F1)) + n
    /\ \A j \in (Len(Data(F1)) + 1)..Len(files'[F1].data) :
        LET r == files'[F1].data[j] IN
        /\ {"title", "artist", "track_url"} \subseteq DOMAIN r
        /\ r \in {new_track(tracks[i]) : i \in 1..Len(tracks)}

\* C2 as stated: a playlist of N tracks, all resolved, none already in the
\* store, adds exactly N records to the persisted output.
C2_ExactlyN == [][C2_Case => C2_NewRecords(Len(tracks))]_vars

\* C2 amended: it adds exactly one record per distinct record among the N
\* (so N when the N records are pairwise distinct), each carrying title,
\* artist and track_url, after the records the file held.
C2_ExactlyDistinct ==
    [][C2_Case =>
        C2_NewRecords(Cardinality({new_track(tracks[i]) : i \in 1..Len(tracks)}))]_vars

\* the first playlist, two different tracks, both new, both saved
C2_Witness ==
    /\ stage = "collect" /\ pc = "playlists" /\ p_idx = 2 /\ all_ok
    /\ Len(tracks) = 2 /\ tracks[1] # tracks[2] /\ t_idx = 3
    /\ files[F1] = ListFile(<<new_track(tracks[1]), new_track(tracks[2])>>)

Complete(song) == Has(song, "bpm") /\ Has(song, "key")

\* the m-th index of the input whose record has both bpm and key
KeptIndex(ss, m) ==
    CHOOSE i \in 1..Len(ss) :
        /\ Complete(ss[i])
        /\ Cardinality({j \in 1..(i - 1) : Complete(ss[j])}) = m - 1

\* C3: the cleanup filter writes a list of len(input) minus the number of
\* records missing bpm or key, every record of it has bpm and key, and it is
\* the retained records in their input order.
C3_CleanupFilter ==
    stage = "clean" /\ pc = "done" =>
        LET in == Data(F2)
            out == Data(F3)
            missing == {i \in 1..Len(in) : ~Has(in[i], "bpm") \/ ~Has(in[i], "key")}
        IN /\ IsList(files[F3])
           /\ Len(out) = Len(in) - Cardinality(missing)
           /\ \A m \in 1..Len(out) : Has(out[m], "bpm") /\ Has(out[m], "key")
           /\ \A m \in 1..Len(out) : out[m] = in[KeptIndex(in, m)]

\* two different complete records kept in order around incomplete ones
C3_Witness ==
    /\ stage = "clean" /\ pc = "done"
    /\ Len(Data(F2)) = 3 /\ Len(Data(F3)) = 2
    /\ ~Has(Data(F2)[2], "key") /\ Has(Data(F2)[2], "bpm")
    /\ Data(F3)[1] = Data(F2)[1] /\ Data(F3)[2] = Data(F2)[3]
    /\ Data(F3)[1] # Data(F3)[2]

----------------------------------------------------------------------------
Looping == stage \in {"bpmkey", "deep"}

\* a step of AnalyzeBpmKey or AnalyzeDeep: one song is taken up
SongStep ==
    /\ Looping /\ pc = "loop" /\ idx <= Len(order)
    /\ stage' = stage /\ pc' \in {"loop", "save"}

\* the fields the running stage is there to add
TargetFields == IF stage = "bpmkey" THEN {"bpm", "key"} ELSE {"features"}

\* C4: a run of stage 2 or 3 resolves, fetches and analyses only records
\* that still miss the stage's target fields, so a re-run from the saved
\* file never takes up a record that already has them.
C4_OnlyIncompleteReprocessed ==
    [][SongStep /\ outcome' # "no_url"
        => ~(TargetFields \subseteq DOMAIN songs[order[idx]])]_vars

\* what stages 2 and 3 have on disk for the list in memory
Persisted == files[outF] = ListFile(songs) \/ songs = Data(inF)

\* the list in memory differs from base in the in-flight record at most
OneInFlight(base) ==
    /\ Len(base) = Len(songs)
    /\ \A i \in 1..Len(songs) : i # order[idx] => songs[i] = base[i]

C5_PerTrackStages ==
    /\ Looping /\ pc = "loop" => Persisted
    /\ Looping /\ pc = "save" =>
            \/ IsList(files[outF]) /\ OneInFlight(Data(outF))
            \/ OneInFlight(Data(inF))

C6_Invariant ==
    /\ stage = "collect" /\ pc = "done" => p_idx = NumPlaylists + 1
    /\ Looping /\ pc = "done" => idx = Len(order) + 1

C6_Step ==
    /\ stage = "collect" /\ stage' = "collect" /\ pc' # "aborted" =>
        /\ pc' = "done" => p_idx = NumPlaylists + 1
        /\ p_idx' \in {p_idx, p_idx + 1}
        /\ pc = "tracks" /\ p_idx' = p_idx + 1 => t_idx = Len(tracks) + 1
        /\ pc = "tracks" /\ pc' = "tracks" => t_idx' = t_idx + 1
    /\ Looping /\ stage' = stage =>
        /\ pc' = "done" => idx = Len(order) + 1
        /\ idx' \in {idx, idx + 1}
        /\ pc = "loop" /\ idx' = idx => pc' \in {"save", "done"}

\* C6: no per-item failure ends a loop.  While a stage runs, every step
\* moves on by one playlist, track or record at most, a playlist is left
\* only after its last track, and a loop ends only after its last item: a
\* failure skips its own item and nothing else.
C6_FailureSkipsOneItem == [](C6_Invariant) /\ [][C6_Step]_vars

\* stage 3: the first song failed in this run and the second was analysed
C6_Witness ==
    /\ stage = "deep" /\ pc = "save" /\ idx = 2 /\ outcome = "ok"
    /\ HasUrl(songs[1]) /\ ~Has(songs[1], "features")
    /\ Has(songs[2], "features")

\* the step that starts a stage: the store file is loaded
StartStep == Idle /\ stage' # "idle"

AbortedStaysPut == pc = "aborted" => files' = files /\ stage' = "idle"

\* C7 as stated: in every stage, a missing or malformed store file aborts
\* the run before any item is processed and no file is written.
C7_LoadFailureAborts ==
    [][/\ StartStep /\ LoadFails(files[inF']) => pc' = "aborted" /\ files' = files
       /\ AbortedStaysPut]_vars

\* C7 amended: that holds in stages 2 and 3 and in the cleanup, and in
\* stage 1 for malformed JSON; a missing file in stage 1 is created as an
\* empty store and the run goes on with it.
C7_LoadFailureAbortsExceptMissingStore ==
    [][/\ StartStep /\ LoadFails(files[inF']) =>
            IF stage' = "collect" /\ files[F1].state = "missing"
            THEN /\ files' = [files EXCEPT ![F1] = ListFile(<<>>)]
                 /\ pc' = "playlists" /\ all_tracks' = <<>>
            ELSE pc' = "aborted" /\ files' = files
       /\ AbortedStaysPut]_vars

\* stage 3 stopped at a malformed input, the files as they were before
C7_Witness ==
    /\ stage = "deep" /\ pc = "aborted"
    /\ files[inF].state = "malformed"
    /\ files \in InitFiles

----------------------------------------------------------------------------
\* C8: the energy list has one entry per section start time, entry i starts
\* at sections[i], so the first start is the first computed boundary, and
\* the starts are strictly increasing.
C8_OneEntryPerSection ==
    epc = "done" =>
        /\ Len(segment_times) = num_sections
        /\ Len(energy_by_section) = Len(segment_times)
        /\ \A i \in 1..Len(energy_by_section) :
                energy_by_section[i].start = segment_times[i]
        /\ energy_by_section[1].start = segment_times[1]
        /\ \A i \in 1..(Len(energy_by_section) - 1) :
                energy_by_section[i].start < energy_by_section[i + 1].start

\* three sections, the last one starting at the final frame, so empty
C8_Witness ==
    /\ epc = "done" /\ num_sections = 3
    /\ Len(energy_by_section) = 3
    /\ segment_times[3] = frames_to_time(Len(rms) - 1)
    /\ energy_by_section[3].energy = [num |-> 0, den |-> 1]
    /\ energy_by_section[1].energy.num > 0

Failures == {"no_url", "resolve_failed", "non200", "error", "zero_bpm"}

C9_FailedSongStep ==
    SongStep /\ outcome' \in Failures => songs' = songs /\ files' = files

C9_SaveAfterFailure ==
    Looping /\ pc = "save" /\ outcome \in Failures /\ stage' = stage =>
        /\ songs' = songs
        /\ \A f \in FileNames \ {outF} : files'[f] = files[f]
        /\ IsList(files[outF]) => files'[outF] = files[outF]
        /\ files'[outF] = ListFile(songs)

Lists == {f \in FileNames : IsList(files[f])}

\* b holds the records of a, in order, each with at least the fields of a
Carries(a, b) ==
    /\ Len(a) = Len(b)
    /\ \A i \in 1..Len(a) :
        /\ DOMAIN a[i] \subseteq DOMAIN b[i]
        /\ a[i]["title"] = b[i]["title"]

MetadataOnly(song) ==
    ~Has(song, "bpm") /\ ~Has(song, "key") /\ ~Has(song, "features")

C10_Invariant ==
    /\ \A f \in Lists : \A i \in 1..Len(Data(f)) :
            Has(Data(f)[i], "features") => Complete(Data(f)[i])
    /\ \A i \in 1..Len(songs) : Has(songs[i], "features") => Complete(songs[i])
    /\ F2 \in Lists => F1 \in Lists /\ Carries(Data(F1), Data(F2))
    /\ F3 \in Lists =>
            /\ F2 \in Lists
            /\ Data(F3) = SelectSeq(Data(F2), Complete)
            /\ \A i \in 1..Len(Data(F2)) :
                    ~Complete(Data(F2)[i]) => MetadataOnly(Data(F2)[i])
    /\ F4 \in Lists => F3 \in Lists /\ Carries(Data(F3), Data(F4))

C10_Step ==
    /\ \A f \in Lists :
            /\ IsList(files'[f])
            /\ Carries(Data(f), SubSeq(files'[f].data, 1, Len(Data(f))))
    /\ stage' = stage /\ stage # "idle" /\ pc' # "aborted" => Carries(songs, songs')

----------------------------------------------------------------------------
\* the frames whose time lies in [from, to), or in [from, to] when closed
FramesBetween(from, to, closed) ==
    {j \in 1..Len(rms) :
        /\ frame_times(rms)[j] >= from
        /\ frame_times(rms)[j] < to \/ (closed /\ frame_times(rms)[j] = to)}

\* the frames section i is to cover: up to the next section start, the last
\* section up to the final frame, that frame included or not
SectionFrames(i, lastClosed) ==
    IF i < Len(segment_times)
    THEN FramesBetween(segment_times[i], segment_times[i + 1], FALSE)
    ELSE FramesBetween(segment_times[i], frame_times(rms)[Len(rms)], lastClosed)

Contiguous(lastClosed) ==
    /\ \A i \in 1..Len(segment_times) :
        energy_by_section[i].energy = average_energy(rms, SectionFrames(i, lastClosed))
    /\ \A j \in 1..Len(rms) :
        (frame_times(rms)[j] >= segment_times[1] /\ (lastClosed \/ j < Len(rms)))
            => Cardinality({i \in 1..Len(segment_times) :
                                j \in SectionFrames(i, lastClosed)}) = 1

\* C11: the sections are contiguous.  Section i averages exactly the frames
\* with time in [sections[i], sections[i+1]), the last section reaches the
\* final analysed frame, and every frame from the first boundary up to and
\* including the final frame is counted in exactly one section.
C11_SectionsCoverEveryFrame == epc = "done" => Contiguous(TRUE)

====
